---- MODULE Spec2Model ----
(***************************************************************************)
(* The USCL lexer (src/src/lexer.py): class Lexer, its constructor, its    *)
(* tokenize() loop and the readers it dispatches to.                        *)
(*                                                                         *)
(* A source text is a sequence of characters, each character a string.    *)
(* Cursor positions are 0-based, as in the Python code, so                 *)
(* source[position] of the code is At(source, position) here.              *)
(* Lists are heap objects: self.tokens holds a reference into `heap`, and  *)
(* tokenize() returns that reference, not a copy.                          *)
(***************************************************************************)
EXTENDS Integers, Sequences, FiniteSets, TLC

\* ------------------------------------------------------------------ bounds

\* Longest source text of the general specification.
MaxLen == 3
\* Longest source text of the operator and of the string specifications.
MaxLenOps == 3
MaxLenStr == 4
\* Number of tokenize() invocations a behaviour makes.
MaxCalls == 2

\* ------------------------------------------------------- character classes
\* A character is a string: the character itself when it is ASCII, its code
\* point written "U+XXXX" otherwise.  The characters of the model are those
\* of Latin-1 (U+0000..U+00FF) and the Arabic-Indic digits U+0660..U+0669;
\* the classes below are str.isdigit(), str.isalpha() and str.isalnum() on
\* exactly these characters.

\* Decimal digits (category Nd): str.isdigit() holds and int()/float()
\* accept them.
AsciiDigits == {"0", "1", "2", "3", "4", "5", "6", "7", "8", "9"}
ArabicIndicDigits == {"U+0660", "U+0661", "U+0662", "U+0663", "U+0664",
                      "U+0665", "U+0666", "U+0667", "U+0668", "U+0669"}
DecimalDigits == AsciiDigits \cup ArabicIndicDigits
\* Characters for which str.isdigit() holds although they are no decimal
\* digit (superscript two, three and one): int() and float() reject them.
OtherDigits == {"U+00B2", "U+00B3", "U+00B9"}
\* Characters for which str.isnumeric() holds and neither isdigit() nor
\* isalpha() (the vulgar fractions): str.isalnum() holds for them.
OtherNumerics == {"U+00BC", "U+00BD", "U+00BE"}
Letters == {"A", "B", "C", "D", "E", "F", "G", "H", "I", "J", "K", "L", "M",
            "N", "O", "P", "Q", "R", "S", "T", "U", "V", "W", "X", "Y", "Z",
            "a", "b", "c", "d", "e", "f", "g", "h", "i", "j", "k", "l", "m",
            "n", "o", "p", "q", "r", "s", "t", "u", "v", "w", "x", "y", "z",
            "U+00AA", "U+00B5", "U+00BA", "U+00C0", "U+00C1", "U+00C2",
            "U+00C3", "U+00C4", "U+00C5", "U+00C6", "U+00C7", "U+00C8",
            "U+00C9", "U+00CA", "U+00CB", "U+00CC", "U+00CD", "U+00CE",
            "U+00CF", "U+00D0", "U+00D1", "U+00D2", "U+00D3", "U+00D4",
            "U+00D5", "U+00D6", "U+00D8", "U+00D9", "U+00DA", "U+00DB",
            "U+00DC", "U+00DD", "U+00DE", "U+00DF", "U+00E0", "U+00E1",
            "U+00E2", "U+00E3", "U+00E4", "U+00E5", "U+00E6", "U+00E7",
            "U+00E8", "U+00E9", "U+00EA", "U+00EB", "U+00EC", "U+00ED",
            "U+00EE", "U+00EF", "U+00F0", "U+00F1", "U+00F2", "U+00F3",
            "U+00F4", "U+00F5", "U+00F6", "U+00F8", "U+00F9", "U+00FA",
            "U+00FB", "U+00FC", "U+00FD", "U+00FE", "U+00FF"}

isdigit(c) == c \in DecimalDigits \cup OtherDigits
isalpha(c) == c \in Letters
isalnum(c) == isalpha(c) \/ isdigit(c) \/ c \in OtherNumerics

At(s, p) == s[p + 1]
\* s[a:b] of Python, for 0 <= a <= b <= len(s).
Slice(s, a, b) == SubSeq(s, a + 1, b)

\* ------------------------------------------------------------ token values

NoneVal == [tag |-> "None", n |-> 0, d |-> 1, s |-> <<>>]
IntVal(k) == [tag |-> "int", n |-> k, d |-> 1, s |-> <<>>]
FloatVal(num, den) == [tag |-> "float", n |-> num, d |-> den, s |-> <<>>]
StrVal(str) == [tag |-> "str", n |-> 0, d |-> 1, s |-> str]

Token(type, value, line, column) ==
    [type |-> type, value |-> value, line |-> line, column |-> column]

DigitValue(c) ==
    CASE c \in {"0", "U+0660"} -> 0 [] c \in {"1", "U+0661"} -> 1
      [] c \in {"2", "U+0662"} -> 2 [] c \in {"3", "U+0663"} -> 3
      [] c \in {"4", "U+0664"} -> 4 [] c \in {"5", "U+0665"} -> 5
      [] c \in {"6", "U+0666"} -> 6 [] c \in {"7", "U+0667"} -> 7
      [] c \in {"8", "U+0668"} -> 8 [] c \in {"9", "U+0669"} -> 9

RECURSIVE DecimalValue(_)
DecimalValue(s) ==
    IF s = <<>> THEN 0
    ELSE 10 * DecimalValue(SubSeq(s, 1, Len(s) - 1)) + DigitValue(s[Len(s)])

RECURSIVE Pow10(_)
Pow10(k) == IF k = 0 THEN 1 ELSE 10 * Pow10(k - 1)

RECURSIVE Reduce10(_, _)
Reduce10(num, den) ==
    IF den > 1 /\ num % 10 = 0 THEN Reduce10(num \div 10, den \div 10)
    ELSE FloatVal(num, den)

\* The longest digit string int() converts (sys.get_int_max_str_digits()).
int_max_str_digits == 4300

\* int(text): the text is a run of isdigit() characters; int() raises
\* ValueError unless every one of them is a decimal digit and there are at
\* most int_max_str_digits of them.  float() has no such limit.
int_raises(text) ==
    \/ \E i \in 1..Len(text) : text[i] \notin DecimalDigits
    \/ Len(text) > int_max_str_digits
int(text) == IntVal(DecimalValue(text))

\* float(text): the text is digits "." digits (the second run may be empty).
\* The value is kept as the fraction num/den in lowest power of ten.
DotIndex(text) == CHOOSE i \in 1..Len(text) : text[i] = "."
float_raises(text) ==
    \E i \in 1..Len(text) : text[i] # "." /\ text[i] \notin DecimalDigits
float(text) ==
    LET k == DotIndex(text)
        whole == SubSeq(text, 1, k - 1)
        frac == SubSeq(text, k + 1, Len(text))
    IN Reduce10(DecimalValue(whole \o frac), Pow10(Len(frac)))

\* ----------------------------------------------------------------- tables

KEYWORDS ==
    { [word |-> <<"d", "e", "f">>, type |-> "DEF"],
      [word |-> <<"l", "e", "t">>, type |-> "LET"],
      [word |-> <<"i", "f">>, type |-> "IF"],
      [word |-> <<"e", "l", "s", "e">>, type |-> "ELSE"],
      [word |-> <<"l", "a", "m", "b", "d", "a">>, type |-> "LAMBDA"],
      [word |-> <<"m", "a", "t", "c", "h">>, type |-> "MATCH"],
      [word |-> <<"q", "u", "a", "n", "t", "u", "m">>, type |-> "QUANTUM"],
      [word |-> <<"a", "s", "y", "n", "c">>, type |-> "ASYNC"],
      [word |-> <<"a", "w", "a", "i", "t">>, type |-> "AWAIT"],
      [word |-> <<"r", "e", "t", "u", "r", "n">>, type |-> "RETURN"],
      [word |-> <<"i", "m", "p", "o", "r", "t">>, type |-> "IMPORT"],
      [word |-> <<"m", "o", "d", "u", "l", "e">>, type |-> "MODULE"],
      [word |-> <<"t", "r", "u", "e">>, type |-> "BOOLEAN"],
      [word |-> <<"f", "a", "l", "s", "e">>, type |-> "BOOLEAN"],
      [word |-> <<"a", "n", "d">>, type |-> "AND"],
      [word |-> <<"o", "r">>, type |-> "OR"],
      [word |-> <<"n", "o", "t">>, type |-> "NOT"] }

\* KEYWORDS.get(value, TokenType.IDENTIFIER)
KEYWORDS_get(value) ==
    IF \E k \in KEYWORDS : k.word = value
    THEN (CHOOSE k \in KEYWORDS : k.word = value).type
    ELSE "IDENTIFIER"

\* The single-character punctuation branches of tokenize().
PunctType(c) ==
    CASE c = ":" -> "COLON" [] c = ";" -> "SEMICOLON" [] c = "," -> "COMMA"
      [] c = "." -> "DOT" [] c = "(" -> "LPAREN" [] c = ")" -> "RPAREN"
      [] c = "[" -> "LBRACKET" [] c = "]" -> "RBRACKET"
      [] c = "{" -> "LBRACE" [] c = "}" -> "RBRACE"
Punctuation == {":", ";", ",", ".", "(", ")", "[", "]", "{", "}"}

\* The two-character operators _read_operator tests, in its order.
TwoCharType(two) ==
    CASE two = <<"=", "=">> -> "EQ" [] two = <<"!", "=">> -> "NEQ"
      [] two = <<"<", "=">> -> "LE" [] two = <<">", "=">> -> "GE"
      [] two = <<"-", ">">> -> "ARROW" [] two = <<"*", "*">> -> "POW"
      [] two = <<"|", ">">> -> "PIPE" [] OTHER -> "none"

\* The one-character operators _read_operator falls back to.
OneCharType(c) ==
    CASE c = "+" -> "PLUS" [] c = "-" -> "MINUS" [] c = "*" -> "STAR"
      [] c = "/" -> "SLASH" [] c = "%" -> "PERCENT" [] c = "=" -> "ASSIGN"
      [] c = "<" -> "LT" [] c = ">" -> "GT" [] c = "|" -> "PIPE"
      [] OTHER -> "none"

\* ------------------------------------------------------------ the Lexer
\* A Lexer object `self`: source, position, line, column, tokens (a heap
\* reference) and indent_stack.  A machine state m is [self, heap, exc]:
\* the object, the heap of lists and the exception raised ("" for none).

\* The list display [] of __init__: a newly allocated list.
NewList(h) == Len(h) + 1

Lexer_init(source, ref) ==
    [source |-> source, position |-> 0, line |-> 1, column |-> 1,
     tokens |-> ref, indent_stack |-> <<0>>]

add_token(m, type, value) ==
    [m EXCEPT !.heap[m.self.tokens] =
        Append(@, Token(type, value, m.self.line, m.self.column))]

\* The inner loop of a comment: everything up to, not including, a newline.
RECURSIVE skip_comment(_)
skip_comment(self) ==
    IF self.position < Len(self.source) /\ At(self.source, self.position) # "\n"
    THEN skip_comment([self EXCEPT !.position = @ + 1])
    ELSE self

RECURSIVE skip_whitespace_and_comments(_)
skip_whitespace_and_comments(self) ==
    IF self.position < Len(self.source)
    THEN LET char == At(self.source, self.position)
         IN IF char \in {" ", "\t"}
            THEN skip_whitespace_and_comments(
                     [self EXCEPT !.position = @ + 1, !.column = @ + 1])
            ELSE IF char = "#"
            THEN skip_whitespace_and_comments(skip_comment(self))
            ELSE self
    ELSE self

\* while position < len(source) and source[position].isdigit()
RECURSIVE digit_run(_)
digit_run(self) ==
    IF self.position < Len(self.source) /\ isdigit(At(self.source, self.position))
    THEN digit_run([self EXCEPT !.position = @ + 1, !.column = @ + 1])
    ELSE self

read_number(m) ==
    LET src == m.self.source
        start_pos == m.self.position
        s1 == digit_run(m.self)
    IN IF s1.position < Len(src) /\ At(src, s1.position) = "."
       THEN LET s2 == digit_run([s1 EXCEPT !.position = @ + 1, !.column = @ + 1])
                text == Slice(src, start_pos, s2.position)
            IN IF float_raises(text)
               THEN [m EXCEPT !.self = s2, !.exc = "ValueError"]
               ELSE add_token([m EXCEPT !.self = s2], "FLOAT", float(text))
       ELSE LET text == Slice(src, start_pos, s1.position)
            IN IF int_raises(text)
               THEN [m EXCEPT !.self = s1, !.exc = "ValueError"]
               ELSE add_token([m EXCEPT !.self = s1], "INTEGER", int(text))

RECURSIVE identifier_run(_)
identifier_run(self) ==
    IF self.position < Len(self.source)
       /\ (isalnum(At(self.source, self.position))
           \/ At(self.source, self.position) \in {"_", "?", "!"})
    THEN identifier_run([self EXCEPT !.position = @ + 1, !.column = @ + 1])
    ELSE self

read_identifier(m) ==
    LET start_pos == m.self.position
        s1 == identifier_run(m.self)
        value == Slice(m.self.source, start_pos, s1.position)
    IN add_token([m EXCEPT !.self = s1], KEYWORDS_get(value), StrVal(value))

\* Mutant of escape: the escaped character is kept as it is written.
escape_raw(escape_char) == escape_char

\* The character an escape pair stands for.
escape(escape_char) ==
    IF escape_char = "n" THEN "\n"
    ELSE IF escape_char = "t" THEN "\t"
    ELSE IF escape_char = "\\" THEN "\\"
    ELSE escape_char

\* The while loop of _read_string; r is [self, value].
RECURSIVE string_loop(_, _)
string_loop(r, quote) ==
    LET self == r.self
        src == self.source
    IN IF self.position < Len(src) /\ At(src, self.position) # quote
       THEN IF At(src, self.position) = "\\"
            THEN LET s1 == [self EXCEPT !.position = @ + 1, !.column = @ + 1]
                     v1 == IF s1.position < Len(src)
                           THEN Append(r.value, escape(At(src, s1.position)))
                           ELSE r.value
                 IN string_loop(
                        [self |-> [s1 EXCEPT !.position = @ + 1, !.column = @ + 1],
                         value |-> v1], quote)
            ELSE string_loop(
                     [self |-> [self EXCEPT !.position = @ + 1, !.column = @ + 1],
                      value |-> Append(r.value, At(src, self.position))], quote)
       ELSE r

read_string(m, quote) ==
    LET s0 == [m.self EXCEPT !.position = @ + 1, !.column = @ + 1]
        r == string_loop([self |-> s0, value |-> <<>>], quote)
        s1 == IF r.self.position < Len(r.self.source)
              THEN [r.self EXCEPT !.position = @ + 1, !.column = @ + 1]
              ELSE r.self
    IN add_token([m EXCEPT !.self = s1], "STRING", StrVal(r.value))

\* Mutant of read_operator: an unknown character is reported and the cursor
\* is left on it.
read_operator_stuck(m) ==
    LET self == m.self
        src == self.source
        char == At(src, self.position)
        two_char == IF self.position + 1 < Len(src)
                    THEN Slice(src, self.position, self.position + 2)
                    ELSE <<>>
    IN IF TwoCharType(two_char) # "none"
       THEN [add_token(m, TwoCharType(two_char), StrVal(two_char))
                EXCEPT !.self.position = @ + 2, !.self.column = @ + 2]
       ELSE IF OneCharType(char) # "none"
       THEN [add_token(m, OneCharType(char), StrVal(<<char>>))
                EXCEPT !.self.position = @ + 1, !.self.column = @ + 1]
       ELSE m

\* Mutant of read_operator: the lookahead test is position + 2 < len(source),
\* so an operator that ends the input is not seen.
read_operator_short_lookahead(m) ==
    LET self == m.self
        src == self.source
        char == At(src, self.position)
        two_char == IF self.position + 2 < Len(src)
                    THEN Slice(src, self.position, self.position + 2)
                    ELSE <<>>
    IN IF TwoCharType(two_char) # "none"
       THEN [add_token(m, TwoCharType(two_char), StrVal(two_char))
                EXCEPT !.self.position = @ + 2, !.self.column = @ + 2]
       ELSE [(IF OneCharType(char) # "none"
              THEN add_token(m, OneCharType(char), StrVal(<<char>>))
              ELSE m)
                EXCEPT !.self.position = @ + 1, !.self.column = @ + 1]

read_operator(m) ==
    LET self == m.self
        src == self.source
        char == At(src, self.position)
        two_char == IF self.position + 1 < Len(src)
                    THEN Slice(src, self.position, self.position + 2)
                    ELSE <<>>
    IN IF TwoCharType(two_char) # "none"
       THEN [add_token(m, TwoCharType(two_char), StrVal(two_char))
                EXCEPT !.self.position = @ + 2, !.self.column = @ + 2]
       ELSE [(IF OneCharType(char) # "none"
              THEN add_token(m, OneCharType(char), StrVal(<<char>>))
              ELSE m)
                EXCEPT !.self.position = @ + 1, !.self.column = @ + 1]

\* Mutant of tokenize_newline: the token records the incremented line.
tokenize_newline_after(m) ==
    LET s1 == [m.self EXCEPT !.position = @ + 1, !.line = @ + 1, !.column = 1]
    IN [m EXCEPT !.self = s1,
                 !.heap[s1.tokens] =
                     Append(@, Token("NEWLINE", StrVal(<<"\n">>),
                                     s1.line, s1.column))]

\* The newline branch of tokenize().
tokenize_newline(m) ==
    LET s1 == [m.self EXCEPT !.position = @ + 1, !.line = @ + 1, !.column = 1]
    IN [m EXCEPT !.self = s1,
                 !.heap[s1.tokens] =
                     Append(@, Token("NEWLINE", StrVal(<<"\n">>),
                                     s1.line - 1, s1.column))]

\* Mutant of tokenize_punctuation: the cursor advances before the token is
\* added.
tokenize_punctuation_after(m, char) ==
    add_token([m EXCEPT !.self.position = @ + 1, !.self.column = @ + 1],
              PunctType(char), StrVal(<<char>>))

\* One of the punctuation branches of tokenize().
tokenize_punctuation(m, char) ==
    [add_token(m, PunctType(char), StrVal(<<char>>))
        EXCEPT !.self.position = @ + 1, !.self.column = @ + 1]

\* The dispatch of one loop iteration of tokenize(), after the skip.
tokenize_dispatch(m) ==
    LET char == At(m.self.source, m.self.position)
    IN IF char = "\n" THEN tokenize_newline(m)
       ELSE IF isdigit(char) THEN read_number(m)
       ELSE IF isalpha(char) \/ char = "_" THEN read_identifier(m)
       ELSE IF char = "\"" \/ char = "'" THEN read_string(m, char)
       ELSE IF char \in Punctuation THEN tokenize_punctuation(m, char)
       ELSE read_operator(m)

\* Mutant of tokenize_finish: the token list is returned as it stands.
tokenize_finish_silent(m) == m

\* The end of tokenize(): the EOF token.
tokenize_finish(m) == add_token(m, "EOF", NoneVal)

\* ---------------------------------------------------------- state machine

VARIABLES
    source,    \* the text every Lexer of the behaviour is constructed with
    lexer,     \* the Lexer object the caller holds
    heap,      \* the list objects: heap[ref] is the content of list ref
    pc,        \* "idle", or where tokenize() stands: "loop", "dispatch", "finish"
    ncalls,    \* tokenize() invocations made so far
    lcalls,    \* tokenize() invocations made on `lexer`
    iters,     \* dispatches the running invocation has completed
    outcome,   \* of the latest invocation: "none", "running", "returned", "raised"
    results    \* what the caller got back: the list returned and what it held

vars == <<source, lexer, heap, pc, ncalls, lcalls, iters, outcome, results>>

Alphabet == {"\n", " ", "#", "1", "U+0663", "U+00B2", ".", "n", "o", "t", "\"",
             "\\", "(", "-", ">", "=", "!"}
AlphabetOps == {"+", "-", "*", "/", "%", "=", "<", ">", "|", "!", "@", "a"}
AlphabetStr == {"\"", "'", "\\", "n", "t", "a", "\n"}

Sources(alphabet, maxlen) == UNION {[1..k -> alphabet] : k \in 0..maxlen}

Machine == [self |-> lexer, heap |-> heap, exc |-> ""]

\* lexer = Lexer(source)
InitWith(sources) ==
    /\ source \in sources
    /\ lexer = Lexer_init(source, NewList(<<>>))
    /\ heap = <<<<>>>>
    /\ pc = "idle"
    /\ ncalls = 0
    /\ lcalls = 0
    /\ iters = 0
    /\ outcome = "none"
    /\ results = <<>>

Init == InitWith(Sources(Alphabet, MaxLen))
InitOps == InitWith(Sources(AlphabetOps, MaxLenOps))
InitStr == InitWith(Sources(AlphabetStr, MaxLenStr))

\* lexer = Lexer(source), again: the caller drops the Lexer it has used.
Construct ==
    /\ pc = "idle"
    /\ lcalls >= 1
    /\ ncalls < MaxCalls
    /\ lexer' = Lexer_init(source, NewList(heap))
    /\ heap' = Append(heap, <<>>)
    /\ lcalls' = 0
    /\ UNCHANGED <<source, pc, ncalls, iters, outcome, results>>

\* lexer.tokenize() is entered.
Call ==
    /\ pc = "idle"
    /\ ncalls < MaxCalls
    /\ pc' = "loop"
    /\ ncalls' = ncalls + 1
    /\ lcalls' = lcalls + 1
    /\ iters' = 0
    /\ outcome' = "running"
    /\ UNCHANGED <<source, lexer, heap, results>>

\* The loop test of tokenize(), the skip and the test that follows it.
Loop ==
    /\ pc = "loop"
    /\ IF lexer.position < Len(lexer.source)
       THEN LET s1 == skip_whitespace_and_comments(lexer)
            IN /\ lexer' = s1
               /\ pc' = IF s1.position >= Len(s1.source) THEN "finish" ELSE "dispatch"
       ELSE /\ lexer' = lexer
            /\ pc' = "finish"
    /\ UNCHANGED <<source, heap, ncalls, lcalls, iters, outcome, results>>

\* The reader the current character selects; an exception leaves tokenize().
Dispatch ==
    /\ pc = "dispatch"
    /\ LET m == tokenize_dispatch(Machine)
       IN /\ lexer' = m.self
          /\ heap' = m.heap
          /\ pc' = IF m.exc # "" THEN "idle" ELSE "loop"
          /\ outcome' = IF m.exc # "" THEN "raised" ELSE outcome
    /\ iters' = iters + 1
    /\ UNCHANGED <<source, ncalls, lcalls, results>>

\* The EOF token and `return self.tokens`.
Finish ==
    /\ pc = "finish"
    /\ LET m == tokenize_finish(Machine)
       IN /\ heap' = m.heap
          /\ results' = Append(results, [list |-> lexer.tokens,
                                         seen |-> m.heap[lexer.tokens],
                                         fresh |-> lcalls = 1])
    /\ pc' = "idle"
    /\ outcome' = "returned"
    /\ UNCHANGED <<source, lexer, ncalls, lcalls, iters>>

Next == Construct \/ Call \/ Loop \/ Dispatch \/ Finish

Spec == Init /\ [][Next]_vars
SpecOps == InitOps /\ [][Next]_vars
SpecStr == InitStr /\ [][Next]_vars

\* ------------------------------------------------------------ vocabulary

\* The token list of the Lexer the caller holds.
toks == heap[lexer.tokens]
Last(s) == s[Len(s)]
\* The character the dispatcher looks at.
CurChar == At(lexer.source, lexer.position)
\* A step of Dispatch, a step of Finish.
DispatchStep == pc = "dispatch" /\ iters' = iters + 1
FinishStep == pc = "finish" /\ pc' = "idle"
\* The step appended exactly one token to the Lexer's list.
EmittedOne == heap'[lexer.tokens] = Append(toks, Last(heap'[lexer.tokens]))
Emitted == Last(heap'[lexer.tokens])
HasToken(s, type) == \E i \in 1..Len(s) : s[i].type = type

\* ---------------------------------------------------------------- C1
\* C1: tokenize() terminates.  Every loop iteration that reaches its reader
\* strictly increases the cursor position, and an invocation completes at
\* most len(source) of them.
C1_CursorAdvances ==
    [][DispatchStep => /\ lexer'.position > lexer.position
                       /\ iters' <= Len(source)]_vars

C1_Witness ==
    /\ outcome = "returned"
    /\ iters = Len(source)
    /\ iters >= 3

\* ---------------------------------------------------------------- C2
\* C2: the sequence tokenize() returns on a freshly constructed Lexer holds
\* exactly one EOF token: it is the last element, its value is None, and no
\* EOF token stands before it.
OneEOFAtEnd(s) ==
    /\ Len(s) >= 1
    /\ Last(s).type = "EOF"
    /\ Last(s).value = NoneVal
    /\ \A j \in 1..(Len(s) - 1) : s[j].type # "EOF"

C2_ExactlyOneEOF ==
    \A i \in 1..Len(results) : results[i].fresh => OneEOFAtEnd(results[i].seen)

C2_Witness ==
    \E i \in 1..Len(results) :
        /\ results[i].fresh
        /\ Len(results[i].seen) >= 3
        /\ HasToken(results[i].seen, "NEWLINE")

\* ---------------------------------------------------------------- C3
\* C3: tokenize() never aborts with an exception, whatever the source text:
\* the int()/float() conversion of a run of isdigit() characters never fails.
C3_NeverRaises == outcome # "raised"

\* ---------------------------------------------------------------- C4
\* C4: line is 1 plus the number of newline characters consumed so far, and
\* column is 1 plus the number of characters consumed since the most recently
\* consumed newline (or since the start of the input).
Consumed == SubSeq(lexer.source, 1,
                   IF lexer.position < Len(lexer.source)
                   THEN lexer.position ELSE Len(lexer.source))
NewlinesIn(s) == Cardinality({i \in 1..Len(s) : s[i] = "\n"})
SinceNewline(s) ==
    LET nl == {i \in 1..Len(s) : s[i] = "\n"}
    IN IF nl = {} THEN Len(s)
       ELSE Len(s) - (CHOOSE i \in nl : \A j \in nl : j <= i)

C4_PositionConsistent ==
    /\ lexer.line = 1 + NewlinesIn(Consumed)
    /\ lexer.column = 1 + SinceNewline(Consumed)

\* ---------------------------------------------------------------- C5
\* The kinds the number, identifier and string readers emit.
ReaderTypes ==
    {"INTEGER", "FLOAT", "STRING", "IDENTIFIER"} \cup {k.type : k \in KEYWORDS}
\* A step in which _add_token ran: a reader or punctuation branch that
\* emitted a token, or the end of tokenize().
AddTokenStep ==
    \/ DispatchStep /\ CurChar # "\n" /\ heap'[lexer.tokens] # toks
    \/ FinishStep
TrailingPosition(tok) ==
    tok.line = lexer'.line /\ tok.column = lexer'.column
LeadingPosition(tok) ==
    /\ tok.line = lexer.line /\ tok.column = lexer.column
    /\ lexer'.line = lexer.line
    /\ lexer'.column = lexer.column + Len(tok.value.s)
    /\ Len(tok.value.s) >= 1

\* C5 as claimed: every token emitted through _add_token, of whatever kind,
\* records the line and column the cursor holds after the lexeme has been
\* consumed.
C5_AllTrailing ==
    [][AddTokenStep => EmittedOne /\ TrailingPosition(Emitted)]_vars

\* C5 as amended: integer, float, string and identifier/keyword/boolean
\* tokens and EOF record the line and column the cursor holds after the
\* lexeme has been consumed; the punctuation, delimiter and operator tokens
\* record the line and column of the lexeme's first character.
C5_TrailingForReadersOnly ==
    [][AddTokenStep =>
          /\ EmittedOne
          /\ IF Emitted.type \in ReaderTypes \cup {"EOF"}
             THEN TrailingPosition(Emitted)
             ELSE LeadingPosition(Emitted)]_vars

C5_Witness ==
    /\ outcome = "returned"
    /\ HasToken(toks, "LPAREN")
    /\ HasToken(toks, "INTEGER")
    /\ \E i \in 1..Len(toks) : toks[i].type = "ASSIGN" /\ toks[i].column = 3

\* ---------------------------------------------------------------- C6
\* A step of the newline branch of the top-level loop.
NewlineStep == DispatchStep /\ CurChar = "\n"

\* C6 as claimed: one NEWLINE token per newline handled by the top-level
\* loop, recording the cursor's line and column after the newline has been
\* consumed (line already incremented, column reset to 1).
C6_NewlineAfterAdvance ==
    [][NewlineStep =>
          /\ EmittedOne
          /\ Emitted.type = "NEWLINE"
          /\ Emitted.line = lexer'.line
          /\ Emitted.column = lexer'.column]_vars

\* C6 as amended: one NEWLINE token per newline handled by the top-level
\* loop; its column is the cursor's column after the newline has been
\* consumed (reset to 1), its line is the line the newline stands on: the
\* cursor's line before the increment, one less than the cursor's line after.
C6_NewlineOwnLine ==
    [][NewlineStep =>
          /\ EmittedOne
          /\ Emitted.type = "NEWLINE"
          /\ Emitted.value = StrVal(<<"\n">>)
          /\ Emitted.line = lexer.line
          /\ Emitted.line = lexer'.line - 1
          /\ Emitted.column = 1
          /\ lexer'.column = 1]_vars

C6_Witness ==
    /\ pc = "loop"
    /\ Len(toks) >= 2
    /\ Last(toks).type = "NEWLINE"
    /\ Last(toks).line = 2
    /\ lexer.line = 3

\* ---------------------------------------------------------------- C7
\* The two-character operators and the kind of each.
TwoCharOperators ==
    { [text |-> <<"=", "=">>, type |-> "EQ"],
      [text |-> <<"!", "=">>, type |-> "NEQ"],
      [text |-> <<"<", "=">>, type |-> "LE"],
      [text |-> <<">", "=">>, type |-> "GE"],
      [text |-> <<"-", ">">>, type |-> "ARROW"],
      [text |-> <<"*", "*">>, type |-> "POW"],
      [text |-> <<"|", ">">>, type |-> "PIPE"] }
\* The dispatcher hands the current character to the operator reader.
ReachesOperatorReader ==
    /\ CurChar # "\n"
    /\ ~isdigit(CurChar)
    /\ ~(isalpha(CurChar) \/ CurChar = "_")
    /\ CurChar \notin {"\"", "'"}
    /\ CurChar \notin Punctuation
\* The two-character operator that starts at the cursor, if there is one.
OperatorAtCursor ==
    {o \in TwoCharOperators :
        /\ lexer.position + 2 <= Len(lexer.source)
        /\ o.text = Slice(lexer.source, lexer.position, lexer.position + 2)}

\* C7: when the operator reader is reached with a two-character operator at
\* the cursor, exactly one token of that operator's kind is emitted and the
\* cursor advances by 2; otherwise the cursor advances by 1 and at most one
\* token, of a one-character lexeme, is emitted.
C7_TwoCharWins ==
    [][DispatchStep /\ ReachesOperatorReader =>
          IF OperatorAtCursor # {}
          THEN /\ EmittedOne
               /\ \E o \in OperatorAtCursor :
                      Emitted.type = o.type /\ Emitted.value = StrVal(o.text)
               /\ lexer'.position = lexer.position + 2
          ELSE /\ lexer'.position = lexer.position + 1
               /\ \/ heap' = heap
                  \/ EmittedOne /\ Emitted.value = StrVal(<<CurChar>>)]_vars

C7_Witness ==
    /\ outcome = "returned"
    /\ Len(toks) = 3
    /\ toks[1].type = "MINUS"
    /\ toks[2].type = "ARROW"
    /\ lexer.position = 3

\* ---------------------------------------------------------------- C8
\* Indices below are 1-based indices into the source; the opening quote of
\* the string the dispatcher is about to read stands at OpenIndex.
OpenIndex == lexer.position + 1
\* The number of backslashes of the string body that stand directly before
\* index i.
RECURSIVE BackslashesBefore(_)
BackslashesBefore(i) ==
    IF i - 1 > OpenIndex /\ lexer.source[i - 1] = "\\"
    THEN 1 + BackslashesBefore(i - 1)
    ELSE 0
\* Index i holds the opening quote character again, and no backslash
\* escapes it.
Closes(i) ==
    /\ i > OpenIndex
    /\ lexer.source[i] = CurChar
    /\ BackslashesBefore(i) % 2 = 0
Closed == \E i \in 1..Len(lexer.source) : Closes(i)
CloseIndex ==
    IF Closed
    THEN CHOOSE i \in 1..Len(lexer.source) :
             Closes(i) /\ \A j \in 1..(i - 1) : ~Closes(j)
    ELSE Len(lexer.source) + 1
StringBody == SubSeq(lexer.source, OpenIndex + 1, CloseIndex - 1)
Unescaped(c) ==
    CASE c = "n" -> "\n" [] c = "t" -> "\t" [] OTHER -> c
\* The body with each backslash pair replaced by the character it stands
\* for; a backslash that ends the input has no partner and yields nothing.
RECURSIVE Decoded(_)
Decoded(body) ==
    IF body = <<>> THEN <<>>
    ELSE IF body[1] # "\\" THEN <<body[1]>> \o Decoded(Tail(body))
    ELSE IF Len(body) = 1 THEN <<>>
    ELSE <<Unescaped(body[2])>> \o Decoded(Tail(Tail(body)))

\* C8: the string reader emits exactly one STRING token; it scans to the
\* first unescaped occurrence of the opening quote character, or to the end
\* of the input if there is none; the value is the decoded body.
C8_StringReader ==
    [][DispatchStep /\ CurChar \in {"\"", "'"} =>
          /\ EmittedOne
          /\ Emitted.type = "STRING"
          /\ Emitted.value = StrVal(Decoded(StringBody))
          /\ IF Closed
             THEN lexer'.position = CloseIndex
             ELSE lexer'.position >= Len(lexer.source)]_vars

C8_Witness ==
    /\ outcome = "returned"
    /\ lcalls = 1
    /\ source = <<"\"", "\\", "n", "\"">>
    /\ toks[1].type = "STRING"
    /\ toks[1].value = StrVal(<<"\n">>)
    /\ lexer.position = 4

\* ---------------------------------------------------------------- C9
FreshState(self) ==
    /\ self.position = 0
    /\ self.line = 1
    /\ self.column = 1
    /\ heap[self.tokens] = <<>>
    /\ self.indent_stack = <<0>>
\* tokenize() has just been entered.
Entered == pc = "loop" /\ iters = 0

\* C9: every tokenize invocation starts from fresh scanner state (position
\* 0, line 1, column 1, empty token sequence, indent stack [0]); the
\* sequences returned for the same source are equal element by element and
\* hold exactly one EOF each; and no later invocation changes a sequence
\* returned earlier.
C9_EveryInvocationFresh ==
    /\ Entered => FreshState(lexer)
    /\ \A i \in 1..Len(results) :
          /\ OneEOFAtEnd(results[i].seen)
          /\ heap[results[i].list] = results[i].seen
          /\ \A j \in 1..Len(results) : results[i].seen = results[j].seen

\* --------------------------------------------------------------- C10
\* C10: the cursor never leaves the source: 0 <= position <= len(source).
C10_CursorInBounds ==
    /\ 0 <= lexer.position
    /\ lexer.position <= Len(lexer.source)

====
